---- MODULE Spec2Model ----
(***************************************************************************)
(* swaylock background screenshot: capture of one frame over the           *)
(* wlr-screencopy protocol, orientation copy, and the threaded six-pass    *)
(* box blur of src/background-screenshot.c.                                *)
(***************************************************************************)
EXTENDS Integers, Sequences, FiniteSets, TLC

(***************************************************************************)
(* Pixels and images.  A pixel is the four bytes of a little-endian        *)
(* uint32_t as they lie in memory: <<b, g, r, a>> (src[idx], src[idx+1],    *)
(* src[idx+2], src[idx+3]).  An image is a function from the word index    *)
(* 0 .. n-1 to pixels.                                                     *)
(***************************************************************************)
\* Bounds of the model: image extents 1..MaxDim, get_nprocs() in 1..MaxProcs,
\* surface->scale in 1..MaxScale, stride padding of 0..MaxPad pixels per row,
\* MaxImage frame contents.  RadiusPerScale is the factor of line 306 (32 in
\* the source), scaled down so that the pass loops stay short: the radius is
\* still a power of two exactly when the scale is.
MaxDim == 2
MaxProcs == 3
MaxScale == 3
MaxPad == 1
MaxImage == 2
RadiusPerScale == 1
\* The longest extent for which the band arithmetic is examined.
MaxExtent == 12
\* The longest line a single pass is examined on.
MaxLine == 4

RECURSIVE Pow2(_)
Pow2(n) == IF n = 0 THEN 1 ELSE 2 * Pow2(n - 1)

\* (int)log2(radius), line 307
RECURSIVE Log2Floor(_)
Log2Floor(n) == IF n <= 1 THEN 0 ELSE 1 + Log2Floor(n \div 2)

\* bitwise or of two non-negative integers
RECURSIVE BitOr(_, _)
BitOr(a, b) ==
  IF a = 0 THEN b
  ELSE IF b = 0 THEN a
  ELSE (IF a % 2 = 1 \/ b % 2 = 1 THEN 1 ELSE 0) + 2 * BitOr(a \div 2, b \div 2)

\* #define IMAGE_XY(x, y, width) ((x) + (y) * (width))
IMAGE_XY(x, y, width) == x + y * width

\* A read of word idx of a buffer of n words; outside the buffer the read
\* yields no pixel of the image (marked by the value Wild).
Wild == <<255, 255, 255, 0>>
Rd(buf, idx) == IF idx \in DOMAIN buf THEN buf[idx] ELSE Wild

\* Mutant: the sum is shifted by radius_log2 only.
ShiftOut_NoHalving(x, radius_log2) == (x \div Pow2(radius_log2)) % 16777216

\* The three colour accumulators r, g, b are uint32_t.  They are kept as
\* integers congruent modulo 2^32; ShiftOut is (x >> radius_log2 >> 1)
\* reduced to its low 24 bits, which is all that the packing below can
\* see of _b, and more than it can see of _g and _r (radius_log2 <= 7).
ShiftOut(x, radius_log2) == (x \div Pow2(radius_log2 + 1)) % 16777216

\* Mutant: the packing without the 0xFF000000.
Pack_NoAlpha(x_r, x_g, x_b) ==
  << x_b % 256,
     BitOr(x_g % 256, (x_b \div 256) % 256),
     BitOr(BitOr(x_r % 256, (x_g \div 256) % 256), (x_b \div 65536) % 256),
     (x_r \div 256) % 256 >>

\* 0xFF000000 | (_r << 16) | (_g << 8) | _b, as the four bytes in memory
Pack(x_r, x_g, x_b) ==
  << x_b % 256,
     BitOr(x_g % 256, (x_b \div 256) % 256),
     BitOr(BitOr(x_r % 256, (x_g \div 256) % 256), (x_b \div 65536) % 256),
     255 >>

(***************************************************************************)
(* fast_blur_V, lines 172-200.  One iteration of the outer loop blurs      *)
(* column i.  The index expressions are kept as operators of their own so  *)
(* that the pass and its footprint use the same addresses.                 *)
(***************************************************************************)
\* line 174: IMAGE_XY(i, 0, width)
V_seed_idx(i, width) == IMAGE_XY(i, 0, width)
\* Mutant: the incoming sample without the clamp to the last row.
V_in_idx_Unclamped(i, j, width, height) == IMAGE_XY(i, j, width)

\* line 179: IMAGE_XY(i, j >= height ? height - 1 : j, width)
V_in_idx(i, j, width, height) ==
  IMAGE_XY(i, IF j >= height THEN height - 1 ELSE j, width)
\* line 187: IMAGE_XY(i, j >= (radius << 1) ? j - (radius << 1) : 0, width)
V_out_idx(i, j, width, radius) ==
  IMAGE_XY(i, IF j >= 2 * radius THEN j - 2 * radius ELSE 0, width)
\* line 195: IMAGE_XY(i, j - radius, width)
V_tgt_idx(i, j, width, radius) == IMAGE_XY(i, j - radius, width)

\* Store of pixel px at word idx of target; a store outside the buffer
\* leaves the buffer as it is (the footprint records it).
Wr(target, idx, px) ==
  IF idx \in DOMAIN target THEN [target EXCEPT ![idx] = px] ELSE target

RECURSIVE V_loop(_, _, _, _, _, _, _, _, _, _, _)
V_loop(target, src, width, height, i, radius, radius_log2, j, r, g, b) ==
  IF j >= height + radius THEN target
  ELSE
    LET pin == Rd(src, V_in_idx(i, j, width, height))
        r1 == r + pin[3]
        g1 == g + pin[2]
        b1 == b + pin[1]
    IN IF j >= radius
       THEN LET pout == Rd(src, V_out_idx(i, j, width, radius))
                r2 == r1 - pout[3]
                g2 == g1 - pout[2]
                b2 == b1 - pout[1]
                px == Pack(ShiftOut(r2, radius_log2), ShiftOut(g2, radius_log2),
                           ShiftOut(b2, radius_log2))
            IN V_loop(Wr(target, V_tgt_idx(i, j, width, radius), px), src, width,
                      height, i, radius, radius_log2, j + 1, r2, g2, b2)
       ELSE V_loop(target, src, width, height, i, radius, radius_log2, j + 1,
                   r1, g1, b1)

\* lines 174-198: the body of the outer loop for column i
V_column(target, src, width, height, i, radius, radius_log2) ==
  LET seed == Rd(src, V_seed_idx(i, width))
  IN V_loop(target, src, width, height, i, radius, radius_log2, 0,
            seed[3] * Pow2(radius_log2), seed[2] * Pow2(radius_log2),
            seed[1] * Pow2(radius_log2))

RECURSIVE fast_blur_V(_, _, _, _, _, _, _, _)
fast_blur_V(target, src, width, height, start, end, radius, radius_log2) ==
  IF start >= end THEN target
  ELSE fast_blur_V(V_column(target, src, width, height, start, radius, radius_log2),
                   src, width, height, start + 1, end, radius, radius_log2)

(***************************************************************************)
(* fast_blur_H, lines 202-230.  One iteration of the outer loop blurs row  *)
(* j.                                                                      *)
(***************************************************************************)
\* line 205: IMAGE_XY(0, j, width)
H_seed_idx(j, width) == IMAGE_XY(0, j, width)
\* line 210: IMAGE_XY(i >= width ? width - 1 : i, j, width)
H_in_idx(i, j, width) == IMAGE_XY(IF i >= width THEN width - 1 ELSE i, j, width)
\* line 217: IMAGE_XY(i > (radius << 1) ? i - (radius << 1) : 0, j, width)
H_out_idx(i, j, width, radius) ==
  IMAGE_XY(IF i > 2 * radius THEN i - 2 * radius ELSE 0, j, width)
\* line 225: IMAGE_XY(i - radius, j, width)
H_tgt_idx(i, j, width, radius) == IMAGE_XY(i - radius, j, width)

RECURSIVE H_loop(_, _, _, _, _, _, _, _, _, _, _)
H_loop(target, src, width, height, j, radius, radius_log2, i, r, g, b) ==
  IF i >= width + radius THEN target
  ELSE
    LET pin == Rd(src, H_in_idx(i, j, width))
        r1 == r + pin[3]
        g1 == g + pin[2]
        b1 == b + pin[1]
    IN IF i >= radius
       THEN LET pout == Rd(src, H_out_idx(i, j, width, radius))
                r2 == r1 - pout[3]
                g2 == g1 - pout[2]
                b2 == b1 - pout[1]
                px == Pack(ShiftOut(r2, radius_log2), ShiftOut(g2, radius_log2),
                           ShiftOut(b2, radius_log2))
            IN H_loop(Wr(target, H_tgt_idx(i, j, width, radius), px), src, width,
                      height, j, radius, radius_log2, i + 1, r2, g2, b2)
       ELSE H_loop(target, src, width, height, j, radius, radius_log2, i + 1,
                   r1, g1, b1)

\* lines 205-228: the body of the outer loop for row j
H_row(target, src, width, height, j, radius, radius_log2) ==
  LET seed == Rd(src, H_seed_idx(j, width))
  IN H_loop(target, src, width, height, j, radius, radius_log2, 0,
            seed[3] * Pow2(radius_log2), seed[2] * Pow2(radius_log2),
            seed[1] * Pow2(radius_log2))

RECURSIVE fast_blur_H(_, _, _, _, _, _, _, _)
fast_blur_H(target, src, width, height, start, end, radius, radius_log2) ==
  IF start >= end THEN target
  ELSE fast_blur_H(H_row(target, src, width, height, start, radius, radius_log2),
                   src, width, height, start + 1, end, radius, radius_log2)

(***************************************************************************)
(* Footprints: the word indices a call of fast_blur_V / fast_blur_H reads  *)
(* in src and writes in target, from the same index expressions.           *)
(***************************************************************************)
V_reads(width, height, start, end, radius) ==
  UNION { {V_seed_idx(i, width)}
          \cup {V_in_idx(i, j, width, height) : j \in 0..(height + radius - 1)}
          \cup {V_out_idx(i, j, width, radius) : j \in radius..(height + radius - 1)}
          : i \in start..(end - 1) }

V_writes(width, height, start, end, radius) ==
  UNION { {V_tgt_idx(i, j, width, radius) : j \in radius..(height + radius - 1)}
          : i \in start..(end - 1) }

H_reads(width, height, start, end, radius) ==
  UNION { {H_seed_idx(j, width)}
          \cup {H_in_idx(i, j, width) : i \in 0..(width + radius - 1)}
          \cup {H_out_idx(i, j, width, radius) : i \in radius..(width + radius - 1)}
          : j \in start..(end - 1) }

H_writes(width, height, start, end, radius) ==
  UNION { {H_tgt_idx(i, j, width, radius) : i \in radius..(width + radius - 1)}
          : j \in start..(end - 1) }

(***************************************************************************)
(* The state of load_background_screenshot and of its threads.             *)
(***************************************************************************)
VARIABLES
  pc,                \* where the coordinating thread is in load_background_screenshot
  svc,               \* the screencopy frame, as the compositor sees it
  screenshot_state,  \* struct screenshot_state, line 277
  width, height,     \* the locals of lines 294-295
  data, interim,     \* the two working buffers, lines 297-298
  work0,             \* history: data as fast_copy_flip left it
  radius, radius_log2, num_procs,
  ci,                \* the loop index i of the coordinator's loops
  args,              \* struct pthread_blur_args args[num_procs - 1]
  wpc, wpass, wrun,  \* each worker: position, passes completed, running pass
  cpass, crun,       \* the coordinator's passes completed and running pass
  touched,           \* word indices outside the buffers that a pass accessed
  passes,            \* history: per thread, the calls it completed, in order
  image              \* the cairo surface returned, or NoImage

vars == <<pc, svc, screenshot_state, width, height, data, interim, work0,
          radius, radius_log2, num_procs, ci, args, wpc, wpass, wrun,
          cpass, crun, touched, passes, image>>

\* An object that holds no determinate value yet (an uninitialised automatic
\* variable, line 277).
Indeterminate == -1

NoImage == [width |-> 0, height |-> 0, stride |-> 0, data |-> <<>>]
NoRun == [kind |-> "none", start |-> 0, end |-> 0, pass |-> 0]

\* Frame contents.  Three colours, one of them opaque red (0xFFFF0000).
Palette == << <<0, 0, 255, 255>>, <<255, 128, 200, 0>>, <<10, 200, 77, 128>> >>
PadPixel == <<85, 85, 85, 85>>
ZeroPixel == <<0, 0, 0, 0>>

\* Pixel n of frame k: frame 1 is uniform, frames 2 and 3 are not.
FramePixel(k, n) == Palette[(((k - 1) * n + k) % Len(Palette)) + 1]

\* The shared-memory buffer after the compositor copied frame k into it:
\* height rows of stride bytes, the first width words of a row are pixels.
ShmFrame(k, w, h, strideW) ==
  [n \in 0..(strideW * h - 1) |->
     IF n % strideW < w THEN FramePixel(k, (n \div strideW) * w + (n % strideW))
     ELSE PadPixel]

\* fast_copy_flip, lines 269-274: memcpy(target + (height - i - 1) * width * 4,
\* src + i * width * 4, width * 4) for every i; word n of target lies in its
\* row n / width, which receives the words of src from i * width on, where
\* height - i - 1 = n / width.
fast_copy_flip(target, src, w, h) ==
  [n \in DOMAIN target |->
     IF n < w * h
     THEN Rd(src, (h - (n \div w) - 1) * w + (n % w))
     ELSE target[n]]

\* malloc(width * height * 4): contents indeterminate
Malloc(n) == [k \in 0..(n - 1) |-> Wild]

Dims == 1..MaxDim

\* The formats of the table of lines 43-48 (packed, 32 bits a pixel), and the
\* formats a compositor may announce with the buffer event: one of the table
\* and one that is not (16 bits a pixel).
TableFormats == {"XRGB8888", "ARGB8888", "XBGR8888", "ABGR8888"}
NegotiatedFormats == {"XRGB8888", "RGB565"}

(***************************************************************************)
(* Capture: the listener of lines 91-142 and the dispatch loop of lines    *)
(* 287-290.  wl_display_dispatch delivers the frame's next event to its    *)
(* handler, or returns -1.                                                 *)
(***************************************************************************)
\* Mutant: an allocator that does not test the result of mmap.
create_shm_buffer_NoMmapCheck(w, h, stride, failure) ==
  IF failure \in {"shm_open", "ftruncate"}
  THEN [wl_buffer |-> "NULL", data |-> <<>>, mapped |-> FALSE]
  ELSE [wl_buffer |-> "buffer",
        data |-> IF failure = "mmap" THEN <<>>
                 ELSE [n \in 0..((stride \div 4) * h - 1) |-> ZeroPixel],
        mapped |-> failure # "mmap"]

\* create_shm_buffer, lines 50-89: NULL when shm_open, ftruncate or mmap
\* fails, else the buffer and (through data_out) its zero-filled mapping of
\* stride * height bytes.
create_shm_buffer(w, h, stride, failure) ==
  IF failure \in {"shm_open", "ftruncate", "mmap"}
  THEN [wl_buffer |-> "NULL", data |-> <<>>, mapped |-> FALSE]
  ELSE [wl_buffer |-> "buffer",
        data |-> [n \in 0..((stride \div 4) * h - 1) |-> ZeroPixel],
        mapped |-> TRUE]

\* frame_handle_buffer, lines 91-111
frame_handle_buffer(format, w, h, stride, failure) ==
  LET made == create_shm_buffer(w, h, stride, failure)
  IN /\ screenshot_state' =
          [screenshot_state EXCEPT
             !.buffer.format = format,
             !.buffer.width = w, !.buffer.height = h, !.buffer.stride = stride,
             !.buffer.wl_buffer = made.wl_buffer,
             !.buffer.data = IF made.mapped THEN made.data ELSE @]
     /\ IF made.wl_buffer = "NULL"
        THEN pc' = "exited" /\ svc' = svc           \* exit(EXIT_FAILURE), line 107
        ELSE pc' = pc /\ svc' = "copy"              \* zwlr_screencopy_frame_v1_copy

\* frame_handle_flags, lines 113-120
frame_handle_flags(flags) ==
  /\ screenshot_state' = [screenshot_state EXCEPT !.buffer.y_invert = flags % 2]
  /\ svc' = "flagged"
  /\ pc' = pc

\* frame_handle_ready, lines 122-129.  By now the compositor has copied the
\* frame (frame k here) into the buffer it was given.
frame_handle_ready(k) ==
  /\ screenshot_state' =
       [screenshot_state EXCEPT
          !.buffer_copy_done = TRUE,
          !.buffer.data = ShmFrame(k, screenshot_state.buffer.width,
                                   screenshot_state.buffer.height,
                                   screenshot_state.buffer.stride \div 4)]
  /\ svc' = "ready"
  /\ pc' = pc

\* Mutant: a failed handler that ends the wait instead of the process.
frame_handle_failed_NoExit ==
  /\ pc' = pc
  /\ svc' = "failed"
  /\ screenshot_state' = [screenshot_state EXCEPT !.buffer_copy_done = TRUE]

\* frame_handle_failed, lines 131-135
frame_handle_failed ==
  /\ pc' = "exited"                                  \* exit(EXIT_FAILURE)
  /\ svc' = "failed"
  /\ screenshot_state' = screenshot_state

blurVars == <<width, height, data, interim, work0, radius, radius_log2,
              num_procs, ci, args, wpc, wpass, wrun, cpass, crun, touched, passes, image>>

\* One turn of the loop of lines 287-290 in which the dispatch call runs a
\* handler.
InLoop == pc = "dispatch" /\ ~screenshot_state.buffer_copy_done

DispatchBuffer ==
  /\ InLoop /\ svc = "requested"
  /\ \E format \in NegotiatedFormats, w \in Dims, h \in Dims, pad \in 0..MaxPad,
        failure \in {"none", "shm_open", "ftruncate", "mmap"} :
       frame_handle_buffer(format, w, h, 4 * (w + pad), failure)
  /\ UNCHANGED blurVars

DispatchFlags ==
  /\ InLoop /\ svc = "copy"
  /\ \E flags \in {0, 1} : frame_handle_flags(flags)
  /\ UNCHANGED blurVars

DispatchReady ==
  /\ InLoop /\ svc = "flagged"
  /\ \E k \in 1..MaxImage : frame_handle_ready(k)
  /\ UNCHANGED blurVars

DispatchFailed ==
  /\ InLoop /\ svc \in {"requested", "copy", "flagged"}
  /\ frame_handle_failed
  /\ UNCHANGED blurVars

\* wl_display_dispatch returns -1: the loop ends without the ready event.
DispatchError ==
  /\ InLoop /\ svc \in {"requested", "copy", "flagged"}
  /\ pc' = "loop_left"
  /\ UNCHANGED <<svc, screenshot_state>>
  /\ UNCHANGED blurVars

(***************************************************************************)
(* From the end of the dispatch loop to the start of the thread loop,      *)
(* lines 287-312.                                                          *)
(***************************************************************************)
\* The values a read of an int object can yield: its value, or, when the
\* object is indeterminate, any value.
ReadInt(v, any) == IF v = Indeterminate THEN any ELSE {v}

\* The band of thread i of num_procs along an extent n, lines 323-324,
\* 354-355; the coordinator's band, lines 338-339 and 360-361.
BandStart(n, i, procs) == (n * i) \div procs
BandEnd(n, i, procs) == (n * (i + 1)) \div procs
\* Mutant: the coordinator's band starts at the truncated band size times
\* procs - 1.
LastBandStart_Trunc(n, procs) == (n \div procs) * (procs - 1)
LastBandStart(n, procs) == (n * (procs - 1)) \div procs

\* lines 306-307
RadiusOf(scale) == RadiusPerScale * scale

Setup ==
  /\ \/ pc = "dispatch" /\ screenshot_state.buffer_copy_done
     \/ pc = "loop_left"
  /\ \/ \* the reads of lines 294-300 are of determinate objects, or yield
        \* some value
        \E w \in ReadInt(screenshot_state.buffer.width, Dims),
           h \in ReadInt(screenshot_state.buffer.height, Dims),
           scale \in 1..MaxScale, procs \in 1..MaxProcs :
          /\ width' = w
          /\ height' = h
          /\ interim' = Malloc(w * h)
          /\ data' = fast_copy_flip(Malloc(w * h), screenshot_state.buffer.data, w, h)
          /\ work0' = data'
          /\ radius' = RadiusOf(scale)
          /\ radius_log2' = Log2Floor(RadiusOf(scale))
          /\ num_procs' = procs
          /\ pc' = IF procs = 1 THEN "V" ELSE "spawn"
     \/ \* or the use of the indeterminate buffer.data pointer faults
        /\ screenshot_state.buffer.width = Indeterminate
        /\ pc' = "crashed"
        /\ UNCHANGED <<width, height, interim, data, work0, radius, radius_log2,
                       num_procs>>
  /\ screenshot_state' = [screenshot_state EXCEPT !.buffer_copy_done = FALSE]
  /\ ci' = 0
  /\ UNCHANGED <<svc, args, wpc, wpass, wrun, cpass, crun, touched, passes, image>>

(***************************************************************************)
(* Passes.  A running pass is the call of fast_blur_V / fast_blur_H with   *)
(* the band its caller passed: pass p (0..5) is vertical for p < 3, writes *)
(* interim for even p and data for odd p (lines 248-263, 338-365).         *)
(***************************************************************************)
PassKind(p) == IF p < 3 THEN "V" ELSE "H"
\* Mutant: the passes write data first.
WritesInterim_DataFirst(p) == p % 2 = 1
WritesInterim(p) == p % 2 = 0

Reads(run) ==
  IF run.kind = "V" THEN V_reads(width, height, run.start, run.end, radius)
  ELSE H_reads(width, height, run.start, run.end, radius)
Writes(run) ==
  IF run.kind = "V" THEN V_writes(width, height, run.start, run.end, radius)
  ELSE H_writes(width, height, run.start, run.end, radius)

Blur(kind, target, src, start, end) ==
  IF kind = "V"
  THEN fast_blur_V(target, src, width, height, start, end, radius, radius_log2)
  ELSE fast_blur_H(target, src, width, height, start, end, radius, radius_log2)

\* The effect of the pass run, called by thread t, on the two buffers.
RunPass(run, t) ==
  /\ IF WritesInterim(run.pass)
     THEN /\ interim' = Blur(run.kind, interim, data, run.start, run.end)
          /\ data' = data
     ELSE /\ data' = Blur(run.kind, data, interim, run.start, run.end)
          /\ interim' = interim
  /\ passes' = [passes EXCEPT ![t] =
                  Append(@, [kind |-> run.kind,
                             src |-> IF WritesInterim(run.pass) THEN "data" ELSE "interim",
                             target |-> IF WritesInterim(run.pass) THEN "interim" ELSE "data"])]
  /\ touched' = touched \cup ((Reads(run) \cup Writes(run)) \ (0..(width * height - 1)))

(***************************************************************************)
(* The scheduler, lines 312-369, and the worker, lines 246-266.            *)
(***************************************************************************)
WorkerIds == 0..(MaxProcs - 2)
\* the threads: worker i is thread i, the coordinator is thread num_procs - 1
ThreadIds == 0..(MaxProcs - 1)
Workers == 0..(num_procs - 2)

\* lines 318-334: one turn of the loop that fills args[i] and creates
\* worker i; pthread_create may fail, which is logged and nothing more.
SpawnWorker ==
  /\ pc = "spawn" /\ ci < num_procs - 1
  /\ args' = [args EXCEPT ![ci] = [start |-> BandStart(width, ci, num_procs),
                                   end |-> BandEnd(width, ci, num_procs),
                                   job_finished |-> FALSE,
                                   Vfinished |-> 0]]
  /\ \E created \in BOOLEAN :
       wpc' = [wpc EXCEPT ![ci] = IF created THEN "V" ELSE "nothread"]
  /\ ci' = ci + 1
  /\ pc' = IF ci + 1 < num_procs - 1 THEN "spawn" ELSE "V"
  /\ UNCHANGED <<svc, screenshot_state, width, height, data, interim, work0,
                 radius, radius_log2, num_procs, wpass, wrun, cpass, crun,
                 touched, passes, image>>

\* The coordinator calls fast_blur_V (line 338) or fast_blur_H (line 360)
\* with the last band.
CoordBegin ==
  /\ pc \in {"V", "H"} /\ crun = NoRun
  /\ crun' = [kind |-> PassKind(cpass),
              start |-> LastBandStart(IF pc = "V" THEN width ELSE height, num_procs),
              end |-> IF pc = "V" THEN width ELSE height,
              pass |-> cpass]
  /\ UNCHANGED <<pc, svc, screenshot_state, width, height, data, interim, work0,
                 radius, radius_log2, num_procs, ci, args, wpc, wpass, wrun,
                 cpass, touched, passes, image>>

\* A call of the coordinator returns; within a phase the next call follows at
\* once with the same band (lines 340-343, 362-365).
CoordEnd ==
  /\ pc \in {"V", "H"} /\ crun # NoRun
  /\ RunPass(crun, num_procs - 1)
  /\ crun' = IF cpass + 1 \in {3, 6} THEN NoRun
             ELSE [crun EXCEPT !.pass = cpass + 1]
  /\ cpass' = cpass + 1
  /\ pc' = IF cpass + 1 = 3 THEN "spin" ELSE IF cpass + 1 = 6 THEN "join" ELSE pc
  /\ ci' = 0
  /\ UNCHANGED <<svc, screenshot_state, width, height, work0, radius, radius_log2,
                 num_procs, args, wpc, wpass, wrun, image>>

\* The values the read of args[i].job_finished at line 349 can yield.  The
\* flag is a plain bool that worker i stores at line 255 with nothing that
\* orders the store and the read: once thread i exists the two race, and
\* the read is not bound to the stored value.
ReadJobFinished(i) ==
  IF wpc[i] \in {"none", "nothread"} THEN {args[i].job_finished} ELSE BOOLEAN

\* lines 345-351: a turn of the while loop that finds every flag set (a
\* turn that does not leaves the state as it is).
SpinWait ==
  /\ pc = "spin"
  /\ \A i \in Workers : TRUE \in ReadJobFinished(i)
  /\ pc' = IF num_procs = 1 THEN "H" ELSE "rebind"
  /\ ci' = 0
  /\ UNCHANGED <<svc, screenshot_state, width, height, data, interim, work0,
                 radius, radius_log2, num_procs, args, wpc, wpass, wrun,
                 cpass, crun, touched, passes, image>>

\* lines 353-358: one turn of the loop that rebinds args[i] to rows and
\* posts the worker's semaphore.
Rebind ==
  /\ pc = "rebind" /\ ci < num_procs - 1
  /\ args' = [args EXCEPT ![ci].start = BandStart(height, ci, num_procs),
                          ![ci].end = BandEnd(height, ci, num_procs),
                          ![ci].Vfinished = @ + 1]
  /\ ci' = ci + 1
  /\ pc' = IF ci + 1 < num_procs - 1 THEN "rebind" ELSE "H"
  /\ UNCHANGED <<svc, screenshot_state, width, height, data, interim, work0,
                 radius, radius_log2, num_procs, wpc, wpass, wrun, cpass, crun,
                 touched, passes, image>>

\* Mutant: a join that does not wait for the worker.
Join_NoWait ==
  /\ pc = "join" /\ ci < num_procs - 1
  /\ ci' = ci + 1
  /\ UNCHANGED <<pc, svc, screenshot_state, width, height, data, interim, work0,
                 radius, radius_log2, num_procs, args, wpc, wpass, wrun,
                 cpass, crun, touched, passes, image>>

\* lines 367-369: pthread_join returns once worker i has terminated.
Join ==
  /\ pc = "join" /\ ci < num_procs - 1
  /\ wpc[ci] = "done"
  /\ ci' = ci + 1
  /\ UNCHANGED <<pc, svc, screenshot_state, width, height, data, interim, work0,
                 radius, radius_log2, num_procs, args, wpc, wpass, wrun,
                 cpass, crun, touched, passes, image>>

\* lines 384-403: free(interim), wrap data in the surface, release the
\* capture buffer, return.
Finish ==
  /\ pc = "join" /\ ci >= num_procs - 1
  /\ image' = [width |-> width, height |-> height,
               stride |-> screenshot_state.buffer.stride, data |-> data]
  /\ interim' = <<>>
  /\ pc' = "returned"
  /\ UNCHANGED <<svc, screenshot_state, width, height, data, work0, radius,
                 radius_log2, num_procs, ci, args, wpc, wpass, wrun, cpass,
                 crun, touched, passes>>

\* pthread_blur calls fast_blur_V (line 248) or fast_blur_H (line 258) with
\* a->start and a->end as they are at the call.
WorkerBegin(i) ==
  /\ wpc[i] \in {"V", "H"} /\ wrun[i] = NoRun
  /\ wrun' = [wrun EXCEPT ![i] = [kind |-> PassKind(wpass[i]),
                                  start |-> args[i].start,
                                  end |-> args[i].end,
                                  pass |-> wpass[i]]]
  /\ UNCHANGED <<pc, svc, screenshot_state, width, height, data, interim, work0,
                 radius, radius_log2, num_procs, ci, args, wpc, wpass, cpass,
                 crun, touched, passes, image>>

\* A call returns.  After the first and second call of a phase the next call
\* follows at once, with a->start and a->end read anew; after the third the
\* worker stores job_finished (line 255) and comes to sem_wait; after the
\* sixth the thread ends (pthread_exit, line 265).
WorkerEnd(i) ==
  /\ wrun[i] # NoRun
  /\ RunPass(wrun[i], i)
  /\ wrun' = [wrun EXCEPT ![i] =
                IF wpass[i] + 1 \in {3, 6} THEN NoRun
                ELSE [kind |-> PassKind(wpass[i] + 1),
                      start |-> args[i].start,
                      end |-> args[i].end,
                      pass |-> wpass[i] + 1]]
  /\ wpass' = [wpass EXCEPT ![i] = @ + 1]
  /\ wpc' = [wpc EXCEPT ![i] = IF wpass[i] + 1 = 3 THEN "sem"
                               ELSE IF wpass[i] + 1 = 6 THEN "done" ELSE @]
  /\ args' = IF wpass[i] + 1 = 3 THEN [args EXCEPT ![i].job_finished = TRUE]
             ELSE args
  /\ UNCHANGED <<pc, svc, screenshot_state, width, height, work0, radius,
                 radius_log2, num_procs, ci, cpass, crun, image>>

\* line 256: sem_wait returns once the semaphore is positive
WorkerSemWait(i) ==
  /\ wpc[i] = "sem"
  /\ args[i].Vfinished > 0
  /\ args' = [args EXCEPT ![i].Vfinished = @ - 1]
  /\ wpc' = [wpc EXCEPT ![i] = "H"]
  /\ UNCHANGED <<pc, svc, screenshot_state, width, height, data, interim, work0,
                 radius, radius_log2, num_procs, ci, wpass, wrun, cpass, crun,
                 touched, passes, image>>

Init ==
  /\ pc = "dispatch"
  /\ svc = "requested"
  /\ screenshot_state =
       [buffer |-> [wl_buffer |-> "indeterminate", data |-> <<>>,
                    format |-> "indeterminate",
                    width |-> Indeterminate, height |-> Indeterminate,
                    stride |-> Indeterminate, y_invert |-> Indeterminate],
        buffer_copy_done |-> FALSE]
  /\ width = 0 /\ height = 0
  /\ data = <<>> /\ interim = <<>> /\ work0 = <<>>
  /\ radius = 0 /\ radius_log2 = 0 /\ num_procs = 0
  /\ ci = 0
  /\ args = [i \in WorkerIds |->
               [start |-> 0, end |-> 0, job_finished |-> FALSE, Vfinished |-> 0]]
  /\ wpc = [i \in WorkerIds |-> "none"]
  /\ wpass = [i \in WorkerIds |-> 0]
  /\ wrun = [i \in WorkerIds |-> NoRun]
  /\ cpass = 0 /\ crun = NoRun
  /\ touched = {}
  /\ passes = [t \in ThreadIds |-> <<>>]
  /\ image = NoImage

Next ==
  \/ DispatchBuffer
  \/ DispatchFlags
  \/ DispatchReady
  \/ DispatchFailed
  \/ DispatchError
  \/ Setup
  \/ SpawnWorker
  \/ CoordBegin
  \/ CoordEnd
  \/ SpinWait
  \/ Rebind
  \/ Join
  \/ Finish
  \/ \E i \in WorkerIds : WorkerBegin(i)
  \/ \E i \in WorkerIds : WorkerEnd(i)
  \/ \E i \in WorkerIds : WorkerSemWait(i)

Spec == Init /\ [][Next]_vars

(***************************************************************************)
(* The blur alone: the calls of fast_blur_V and fast_blur_H that one run   *)
(* of lines 318-365 makes, on a working image drawn at the start, one call *)
(* at a time: pass by pass, and within a pass band by band (the workers'   *)
(* bands, then the coordinator's).                                         *)
(***************************************************************************)
WorkingImage(k, w, h) == [n \in 0..(w * h - 1) |-> FramePixel(k, n)]

InitBlur ==
  /\ pc = "blur"
  /\ svc = "none"
  /\ screenshot_state =
       [buffer |-> [wl_buffer |-> "indeterminate", data |-> <<>>,
                    format |-> "indeterminate",
                    width |-> Indeterminate, height |-> Indeterminate,
                    stride |-> Indeterminate, y_invert |-> Indeterminate],
        buffer_copy_done |-> FALSE]
  /\ \E w \in Dims, h \in Dims, k \in 1..MaxImage, scale \in 1..MaxScale,
        procs \in 1..MaxProcs :
       /\ width = w /\ height = h
       /\ data = WorkingImage(k, w, h)
       /\ work0 = WorkingImage(k, w, h)
       /\ interim = Malloc(w * h)
       /\ radius = RadiusOf(scale)
       /\ radius_log2 = Log2Floor(RadiusOf(scale))
       /\ num_procs = procs
  /\ ci = 0
  /\ args = [i \in WorkerIds |->
               [start |-> 0, end |-> 0, job_finished |-> FALSE, Vfinished |-> 0]]
  /\ wpc = [i \in WorkerIds |-> "none"]
  /\ wpass = [i \in WorkerIds |-> 0]
  /\ wrun = [i \in WorkerIds |-> NoRun]
  /\ cpass = 0 /\ crun = NoRun
  /\ touched = {}
  /\ passes = [t \in ThreadIds |-> <<>>]
  /\ image = NoImage

\* Call number ci: pass ci / num_procs on band ci % num_procs.
BlurCall ==
  /\ pc = "blur"
  /\ LET p == ci \div num_procs
         b == ci % num_procs
         n == IF p < 3 THEN width ELSE height
         run == [kind |-> PassKind(p),
                 start |-> IF b = num_procs - 1 THEN LastBandStart(n, num_procs)
                           ELSE BandStart(n, b, num_procs),
                 end |-> IF b = num_procs - 1 THEN n ELSE BandEnd(n, b, num_procs),
                 pass |-> p]
     IN /\ RunPass(run, b)
        /\ crun' = run
  /\ ci' = ci + 1
  /\ cpass' = (ci + 1) \div num_procs
  /\ pc' = IF ci + 1 = 6 * num_procs THEN "blurred" ELSE "blur"
  /\ UNCHANGED <<svc, screenshot_state, width, height, work0, radius, radius_log2,
                 num_procs, args, wpc, wpass, wrun, image>>

NextBlur == BlurCall

SpecBlur == InitBlur /\ [][NextBlur]_vars

(***************************************************************************)
(* The scheduler alone: load_background_screenshot from line 312 on, after *)
(* a capture that completed (tight stride, a format of the table) and the  *)
(* copy of line 300.  Each thread that exists keeps running: the           *)
(* coordinator takes its next step when it can, and so does each worker.   *)
(***************************************************************************)
InitSched ==
  /\ svc = "ready"
  /\ \E w \in Dims, h \in Dims, k \in 1..MaxImage, scale \in 1..MaxScale,
        procs \in 1..MaxProcs :
       /\ screenshot_state =
            [buffer |-> [wl_buffer |-> "buffer", data |-> ShmFrame(k, w, h, w),
                         format |-> "XRGB8888",
                         width |-> w, height |-> h,
                         stride |-> 4 * w, y_invert |-> 0],
             buffer_copy_done |-> FALSE]
       /\ width = w /\ height = h
       /\ data = fast_copy_flip(Malloc(w * h), ShmFrame(k, w, h, w), w, h)
       /\ work0 = data
       /\ interim = Malloc(w * h)
       /\ radius = RadiusOf(scale)
       /\ radius_log2 = Log2Floor(RadiusOf(scale))
       /\ num_procs = procs
       /\ pc = IF procs = 1 THEN "V" ELSE "spawn"
  /\ ci = 0
  /\ args = [i \in WorkerIds |->
               [start |-> 0, end |-> 0, job_finished |-> FALSE, Vfinished |-> 0]]
  /\ wpc = [i \in WorkerIds |-> "none"]
  /\ wpass = [i \in WorkerIds |-> 0]
  /\ wrun = [i \in WorkerIds |-> NoRun]
  /\ cpass = 0 /\ crun = NoRun
  /\ touched = {}
  /\ passes = [t \in ThreadIds |-> <<>>]
  /\ image = NoImage

\* The steps of the coordinating thread and of worker i.
CoordStep ==
  \/ SpawnWorker
  \/ CoordBegin
  \/ CoordEnd
  \/ SpinWait
  \/ Rebind
  \/ Join
  \/ Finish

WorkerStep(i) ==
  \/ WorkerBegin(i)
  \/ WorkerEnd(i)
  \/ WorkerSemWait(i)

NextSched ==
  \/ CoordStep
  \/ \E i \in WorkerIds : WorkerStep(i)

SpecSched ==
  /\ InitSched
  /\ [][NextSched]_vars
  /\ WF_vars(CoordStep)
  /\ \A i \in WorkerIds : WF_vars(WorkerStep(i))

(***************************************************************************)
(* One pass alone: a single call of fast_blur_V or fast_blur_H from data   *)
(* to interim over all the lines of an image whose lines (columns for V,   *)
(* rows for H) are 1 .. MaxLine long.                                      *)
(***************************************************************************)
InitPass ==
  /\ pc = "pass"
  /\ svc = "none"
  /\ screenshot_state =
       [buffer |-> [wl_buffer |-> "indeterminate", data |-> <<>>,
                    format |-> "indeterminate",
                    width |-> Indeterminate, height |-> Indeterminate,
                    stride |-> Indeterminate, y_invert |-> Indeterminate],
        buffer_copy_done |-> FALSE]
  /\ \E kind \in {"V", "H"}, len \in 1..MaxLine, lines \in Dims, k \in 1..MaxImage,
        scale \in 1..MaxScale :
       /\ width = (IF kind = "V" THEN lines ELSE len)
       /\ height = (IF kind = "V" THEN len ELSE lines)
       /\ data = WorkingImage(k, width, height)
       /\ work0 = data
       /\ interim = Malloc(width * height)
       /\ radius = RadiusOf(scale)
       /\ radius_log2 = Log2Floor(RadiusOf(scale))
       /\ crun = [kind |-> kind, start |-> 0, end |-> lines, pass |-> 0]
  /\ num_procs = 1
  /\ ci = 0
  /\ args = [i \in WorkerIds |->
               [start |-> 0, end |-> 0, job_finished |-> FALSE, Vfinished |-> 0]]
  /\ wpc = [i \in WorkerIds |-> "none"]
  /\ wpass = [i \in WorkerIds |-> 0]
  /\ wrun = [i \in WorkerIds |-> NoRun]
  /\ cpass = 0
  /\ touched = {}
  /\ passes = [t \in ThreadIds |-> <<>>]
  /\ image = NoImage

PassCall ==
  /\ pc = "pass"
  /\ RunPass(crun, 0)
  /\ cpass' = 1
  /\ pc' = "passed"
  /\ UNCHANGED <<svc, screenshot_state, width, height, work0, radius, radius_log2,
                 num_procs, ci, args, wpc, wpass, wrun, crun, image>>

NextPass == PassCall

SpecPass == InitPass /\ [][NextPass]_vars

(***************************************************************************)
(* Properties.                                                             *)
(***************************************************************************)
\* The passes that are running, each with the thread that runs it
\* (worker i, or num_procs - 1 for the coordinator).
ActiveRuns ==
  {[thread |-> i, run |-> wrun[i]] : i \in {j \in WorkerIds : wrun[j] # NoRun}}
  \cup (IF crun # NoRun THEN {[thread |-> num_procs - 1, run |-> crun]} ELSE {})

\* Pass a writes a word that pass b reads or writes.
Conflict(a, b) ==
  \/ WritesInterim(a.pass) = WritesInterim(b.pass) /\ Writes(a) \cap Writes(b) # {}
  \/ WritesInterim(a.pass) # WritesInterim(b.pass) /\ Writes(a) \cap Reads(b) # {}

\* The six passes over the whole image by one thread: what num_procs = 1 runs
\* (lines 338-343 and 360-365 with the band 0 .. width, 0 .. height).
SerialBlur(img) ==
  LET i1 == fast_blur_V(Malloc(width * height), img, width, height, 0, width,
                        radius, radius_log2)
      d2 == fast_blur_V(img, i1, width, height, 0, width, radius, radius_log2)
      i3 == fast_blur_V(i1, d2, width, height, 0, width, radius, radius_log2)
      d4 == fast_blur_H(d2, i3, width, height, 0, height, radius, radius_log2)
      i5 == fast_blur_H(i3, d4, width, height, 0, height, radius, radius_log2)
  IN fast_blur_H(d4, i5, width, height, 0, height, radius, radius_log2)

Uniform(img) == \A n \in DOMAIN img : img[n] = img[0]

\* The capture completed (ready was delivered) and the copy of line 300 ran.
Normalized ==
  svc = "ready" /\ pc \notin {"dispatch", "loop_left", "exited", "crashed"}

\* Row i of the captured buffer (at byte offset i * stride) and of the working
\* image as line 300 left it (at byte offset i * width * 4).
SrcRow(i) ==
  [x \in 0..(width - 1) |->
     screenshot_state.buffer.data[i * (screenshot_state.buffer.stride \div 4) + x]]
OutRow(i) == [x \in 0..(width - 1) |-> work0[i * width + x]]

\* C1: (in a run whose capture completed) no worker runs or has run a
\* horizontal pass unless the coordinator and every worker have completed
\* their three vertical passes.
C1_BarrierBeforeHorizontal ==
  svc = "ready" =>
    \A i \in WorkerIds :
      (wrun[i].kind = "H" \/ wpass[i] > 3) =>
        (cpass >= 3 /\ \A j \in Workers : wpass[j] >= 3)

\* C2: (in a run whose capture completed) no two passes that are running at
\* the same time touch a common word of a buffer that one of them writes.
C2_ConcurrentBandsDisjoint ==
  svc = "ready" =>
    \A a \in ActiveRuns, b \in ActiveRuns :
      a.thread # b.thread => ~Conflict(a.run, b.run)

\* C3: the image returned (for a capture that completed) equals the image the
\* six passes give when one thread runs them over the whole image.
C3_BandInvariance ==
  (svc = "ready" /\ pc = "returned") => image.data = SerialBlur(work0)

\* C4: the six passes turn an image of one colour into the image of that
\* colour with alpha 0xFF, for every radius and band count.
C4_UniformColourPreserved ==
  (pc = "blurred" /\ Uniform(work0)) =>
    data = [n \in DOMAIN work0 |-> <<work0[0][1], work0[0][2], work0[0][3], 255>>]

\* C5: after the six passes every pixel of the primary buffer has alpha 0xFF.
C5_AlphaForced ==
  pc = "blurred" => \A n \in DOMAIN data : data[n][4] = 255

C5_Witness ==
  /\ pc = "blurred" /\ num_procs > 1
  /\ \E n \in DOMAIN work0 : work0[n][4] # 255

\* C6: no call of fast_blur_V or fast_blur_H on a band of the image reads or
\* writes a word outside 0 .. width * height - 1.
C6_NoOutOfBounds == touched = {}

C6_Witness ==
  /\ pc = "blurred" /\ radius > width /\ radius > height
  /\ width * height > 1

\* C7: with the vertical-flip flag reported, row i of the working image is row
\* height - 1 - i of the captured buffer.
C7_FlippedRows ==
  (Normalized /\ screenshot_state.buffer.y_invert = 1) =>
    \A i \in 0..(height - 1) : OutRow(i) = SrcRow(height - 1 - i)

\* C8: with no vertical flip reported, row i of the working image is row i of
\* the captured buffer.
C8_StraightRows ==
  (Normalized /\ screenshot_state.buffer.y_invert = 0) =>
    \A i \in 0..(height - 1) : OutRow(i) = SrcRow(i)

\* C9: every row of the working image holds the width pixels of one row of
\* the captured buffer, taken at that row's offset of a multiple of stride.
C9_RowsByStride ==
  Normalized =>
    \A i \in 0..(height - 1) : \E r \in 0..(height - 1) : OutRow(i) = SrcRow(r)

C11_ReadyBeforeImage ==
  (pc \in {"spawn", "V", "spin", "rebind", "H", "join", "returned"} \/ image # NoImage)
    => svc = "ready"

\* C12: the entry point has returned only when the coordinator has completed
\* its three horizontal passes and every worker has completed its own and has
\* terminated.
C12_ReturnAfterJoin ==
  pc = "returned" =>
    /\ cpass = 6 /\ crun = NoRun
    /\ Len(passes[num_procs - 1]) = 6
    /\ \A i \in Workers :
         wpc[i] = "done" /\ wpass[i] = 6 /\ wrun[i] = NoRun /\ Len(passes[i]) = 6

C12_Witness ==
  /\ pc = "returned" /\ num_procs >= 2 /\ svc = "ready"
  /\ \A i \in Workers : wpc[i] = "done"

\* C13: once the buffer event has announced a format that is not one of the
\* packed 32-bit formats of the table, no buffer is submitted for copy and no
\* blur pass is run.
C13_UnsupportedFormatRejected ==
  (screenshot_state.buffer.format \in NegotiatedFormats \ TableFormats) =>
    /\ svc = "requested"
    /\ crun = NoRun /\ \A i \in WorkerIds : wrun[i] = NoRun
    /\ \A t \in ThreadIds : passes[t] = <<>>

\* Band i of P along an extent n: [n*i/P, n*(i+1)/P) for the workers
\* (i < P - 1), [n*(P-1)/P, n) for the coordinator (i = P - 1).
BandLo(n, i, P) == IF i = P - 1 THEN LastBandStart(n, P) ELSE BandStart(n, i, P)
BandHi(n, i, P) == IF i = P - 1 THEN n ELSE BandEnd(n, i, P)

BandsPartition(n, P) ==
  /\ BandLo(n, 0, P) = 0
  /\ BandHi(n, P - 1, P) = n
  /\ \A i \in 0..(P - 1) : BandLo(n, i, P) <= BandHi(n, i, P)
  /\ \A i \in 0..(P - 2) : BandHi(n, i, P) = BandLo(n, i + 1, P)
  /\ \A x \in 0..(n - 1) :
       Cardinality({i \in 0..(P - 1) : BandLo(n, i, P) <= x /\ x < BandHi(n, i, P)}) = 1
  /\ \A i, j \in 0..(P - 1) :
       (BandHi(n, i, P) - BandLo(n, i, P)) - (BandHi(n, j, P) - BandLo(n, j, P))
         \in {-1, 0, 1}

\* C14: for the number of threads of the run and every extent (the width
\* and the height of the run among them) the bands are contiguous, disjoint,
\* cover the extent and differ in size by at most one; with one thread no
\* worker exists and the coordinator's calls run on the whole extent.
C14_BandsPartition ==
  /\ \A n \in 1..MaxExtent : BandsPartition(n, num_procs)
  /\ BandsPartition(width, num_procs) /\ BandsPartition(height, num_procs)
  /\ num_procs = 1 =>
       /\ \A i \in WorkerIds : wpc[i] = "none" /\ wpass[i] = 0 /\ wrun[i] = NoRun
       /\ crun # NoRun =>
            crun.start = 0 /\ crun.end = (IF crun.kind = "V" THEN width ELSE height)

C14_Witness ==
  /\ num_procs = MaxProcs /\ width % num_procs # 0
  /\ crun # NoRun /\ crun.end > crun.start
  /\ \E i \in Workers : wrun[i] # NoRun /\ wrun[i].end > wrun[i].start

\* C15: create_shm_buffer returns no buffer when shm_open, ftruncate or mmap
\* fails; after such a failure the process has ended in the buffer handler
\* and nothing was submitted; a buffer has been submitted for copy only if
\* it was created and its stride * height bytes are mapped.
C15_AllocationFailureEndsCapture ==
  /\ \A w \in Dims, h \in Dims, pad \in 0..MaxPad,
        failure \in {"shm_open", "ftruncate", "mmap"} :
       create_shm_buffer(w, h, 4 * (w + pad), failure).wl_buffer = "NULL"
  /\ screenshot_state.buffer.wl_buffer = "NULL" =>
       pc = "exited" /\ svc = "requested" /\ image = NoImage
  /\ svc \in {"copy", "flagged", "ready"} =>
       /\ screenshot_state.buffer.wl_buffer = "buffer"
       /\ DOMAIN screenshot_state.buffer.data =
            0..((screenshot_state.buffer.stride \div 4) * screenshot_state.buffer.height - 1)

C15_Witness ==
  /\ screenshot_state.buffer.wl_buffer = "NULL"
  /\ pc = "exited"
  /\ screenshot_state.buffer.width \in Dims

\* C16: (in a run whose capture completed) every vertical pass of worker i
\* runs on the columns [width*i/P, width*(i+1)/P) and every horizontal pass
\* of worker i on the rows [height*i/P, height*(i+1)/P).
C16_PassOnItsOwnBand ==
  svc = "ready" =>
    \A i \in WorkerIds :
      /\ (wrun[i] # NoRun /\ wrun[i].kind = "V") =>
           /\ wrun[i].start = BandStart(width, i, num_procs)
           /\ wrun[i].end = BandEnd(width, i, num_procs)
      /\ (wrun[i] # NoRun /\ wrun[i].kind = "H") =>
           /\ wrun[i].start = BandStart(height, i, num_procs)
           /\ wrun[i].end = BandEnd(height, i, num_procs)

\* The six calls of a thread as the claim orders them: V, V, V, H, H, H, the
\* first from primary (data) to scratch (interim), each next one from the
\* buffer the previous one wrote to the other.
ExpectedPasses ==
  << [kind |-> "V", src |-> "data", target |-> "interim"],
     [kind |-> "V", src |-> "interim", target |-> "data"],
     [kind |-> "V", src |-> "data", target |-> "interim"],
     [kind |-> "H", src |-> "interim", target |-> "data"],
     [kind |-> "H", src |-> "data", target |-> "interim"],
     [kind |-> "H", src |-> "interim", target |-> "data"] >>

\* C17: the calls each thread has completed are the first ones of V, V, V,
\* H, H, H with alternating buffers, data read first; at the return every
\* thread has completed all six, the last one wrote data, and data is the
\* buffer of the image returned.
C17_SixPassesPingPong ==
  /\ \A t \in ThreadIds :
       /\ Len(passes[t]) <= 6
       /\ passes[t] = SubSeq(ExpectedPasses, 1, Len(passes[t]))
       /\ \A n \in 1..Len(passes[t]) :
            /\ passes[t][n].src # passes[t][n].target
            /\ n > 1 => passes[t][n].src = passes[t][n - 1].target
  /\ pc = "returned" =>
       /\ \A t \in 0..(num_procs - 1) :
            Len(passes[t]) = 6 /\ passes[t][6].target = "data"
       /\ image.data = data

C17_Witness ==
  /\ pc = "returned" /\ num_procs = MaxProcs
  /\ \A t \in 0..(num_procs - 1) : Len(passes[t]) = 6

\* C18: with every thread scheduled fairly, every run of the scheduler comes
\* to its return.
C18_SchedulerTerminates == <>(pc = "returned")

\* Line l of the pass crun (column l for V, row l for H) has LineLen positions;
\* LineIdx is the word index of its position p.
LineLen == IF crun.kind = "V" THEN height ELSE width
LineIdx(l, p) == IF crun.kind = "V" THEN IMAGE_XY(l, p, width) ELSE IMAGE_XY(p, l, width)
Clamp(q, len) == IF q < 0 THEN 0 ELSE IF q > len - 1 THEN len - 1 ELSE q

\* The sum of channel c of src over the positions from .. to of line l, each
\* clamped into the line.
RECURSIVE WindowSum(_, _, _, _, _)
WindowSum(src, l, c, from, to) ==
  IF from > to THEN 0
  ELSE src[LineIdx(l, Clamp(from, LineLen))][c] + WindowSum(src, l, c, from + 1, to)

LineChannel(src, l, c) == {src[LineIdx(l, p)][c] : p \in 0..(LineLen - 1)}

\* C19: after one pass with a radius that is a power of two, each colour
\* channel at position p of a line is the sum of the source channel over the
\* positions p - radius + 1 .. p + radius (clamped into the line) divided by
\* 2 * radius, rounded down; it lies between two source values of the line
\* and is at most 255.
C19_SinglePassWindowMean ==
  (pc = "passed" /\ radius = Pow2(radius_log2)) =>
    \A l \in crun.start..(crun.end - 1), p \in 0..(LineLen - 1), c \in 1..3 :
      LET out == interim[LineIdx(l, p)][c]
      IN /\ out = WindowSum(data, l, c, p - radius + 1, p + radius) \div (2 * radius)
         /\ out <= 255
         /\ \E lo \in LineChannel(data, l, c), hi \in LineChannel(data, l, c) :
              lo <= out /\ out <= hi

C19_Witness ==
  /\ pc = "passed" /\ radius = Pow2(radius_log2) /\ radius >= 2
  /\ LineLen = MaxLine /\ crun.end > 1
  /\ ~Uniform(data)

\* C20: the stride of the image returned (for a capture that completed) is
\* the row pitch of its buffer, width * 4, so that stride * height is no
\* more than the width * height * 4 bytes of the buffer.
C20_ImageStrideIsRowPitch ==
  (svc = "ready" /\ image # NoImage) =>
    /\ image.stride = 4 * image.width
    /\ image.stride * image.height <= 4 * Cardinality(DOMAIN image.data)
====
